---- MODULE Spec2Model ----
(***************************************************************************)
(* Dashboard layout persistence of hubb-nest (component Apps in            *)
(* src/micro-apps/dating-ideas/DatingIdeasApp.tsx): load, default-layout   *)
(* creation, drag reorder with per-row position updates, reset.            *)
(*                                                                         *)
(* A select, insert or delete is modelled in two steps: the store serves   *)
(* the request (Serve...), then the response reaches the view and the code *)
(* after the await runs up to the next await.  The response of a position  *)
(* update carries nothing the handler reads but whether the call threw, so *)
(* the store applying it and the handler resuming are one step.  An async  *)
(* function in progress is a record of procs; it leaves procs when it      *)
(* returns.                                                                *)
(*                                                                         *)
(* The CRUD views (BucketListApp, DatingJournalApp, DatingIdeasApp) and    *)
(* the listing views (Events, Blog) are a second specification, ViewSpec,  *)
(* over their own variables: one mounted view, its table, its list, form   *)
(* and filters, and the bag of its handlers' calls in flight.              *)
(*                                                                         *)
(* StoredSpec is the dashboard opened on rows the table already holds,     *)
(* some of them with is_active false: load and reorder only.               *)
(***************************************************************************)
EXTENDS Integers, Sequences, FiniteSets, Bags, TLC

\* ---- bounds of the model ------------------------------------------------
\* drag-end events, resets, re-mounts and failed remote calls in one behaviour
MaxEvents == 2

\* ---- program constants --------------------------------------------------
AVAILABLE_WIDGETS == <<"bucket-list", "dating-journal", "dating-ideas", "dating-app">>

UserId == "user-1"

ToastKinds == {"saveError", "resetOk", "resetError"}

VARIABLES
  remote,      \* table dashboard_layout: set of rows
  nextId,      \* next id the store assigns
  layout,      \* useState layout of the mounted Apps instance
  loading,     \* useState loading
  epoch,       \* which mount of Apps is the current one
  procs,       \* async functions in progress, with their calls in flight
  toasts,      \* number of notifications shown, by kind
  failures,    \* remote calls that failed so far
  nDrags,      \* drag-end events delivered so far
  nResets,     \* resets started so far
  layoutBy     \* history: what set layout last

vars == <<remote, nextId, layout, loading, epoch, procs, toasts, failures,
          nDrags, nResets, layoutBy>>

\* state of the CRUD views (bucket list, dating journal, dating ideas) and of
\* the listing views (events, blog); one of them is mounted in a behaviour
VARIABLES
  view,            \* which view is mounted
  records,         \* the view's remote table: set of rows
  nextRowId,       \* next id and created_at stamp the store assigns
  items,           \* useState items / entries / ideas / events / posts
  viewLoading,     \* useState loading of the view
  isDialogOpen,    \* useState isDialogOpen
  editingItem,     \* useState editingItem / editingEntry / editingIdea: {} is null
  formData,        \* useState formData
  searchTerm,      \* useState searchTerm (events)
  categoryFilter,  \* useState categoryFilter (dating ideas, events)
  distanceFilter,  \* useState distanceFilter (events)
  calls,           \* async functions of the view in progress: a bag
  notices,         \* number of notifications shown, by kind
  nCalls           \* mutations started and remote calls failed so far

viewVars == <<view, records, nextRowId, items, viewLoading, isDialogOpen,
              editingItem, formData, searchTerm, categoryFilter,
              distanceFilter, calls, notices, nCalls>>

NoticeKinds == {"ok", "error"}

\* no view is mounted
NoView ==
  /\ view = "apps"
  /\ records = {}
  /\ nextRowId = 1
  /\ items = <<>>
  /\ viewLoading = TRUE
  /\ isDialogOpen = FALSE
  /\ editingItem = {}
  /\ formData = <<>>
  /\ searchTerm = <<>>
  /\ categoryFilter = "all"
  /\ distanceFilter = "all"
  /\ calls = EmptyBag
  /\ notices = [k \in NoticeKinds |-> 0]
  /\ nCalls = 0

\* ---- sequences ----------------------------------------------------------
Range(s) == {s[x] : x \in DOMAIN s}

\* Array.prototype.splice(index, 1): the array without the element at the
\* 0-based index
SpliceOut(arr, index) ==
  [x \in 1..(Len(arr) - 1) |-> IF x <= index THEN arr[x] ELSE arr[x + 1]]

\* Array.prototype.splice(index, 0, item): item inserted at the 0-based index
SpliceIn(arr, index, item) ==
  [x \in 1..(Len(arr) + 1) |->
     IF x <= index THEN arr[x]
     ELSE IF x = index + 1 THEN item
     ELSE arr[x - 1]]

\* a reorder that exchanges the two widgets instead of moving one
ReorderSwap(arr, source, destination) ==
  [arr EXCEPT ![source + 1] = arr[destination + 1],
              ![destination + 1] = arr[source + 1]]

\* newLayout of handleDragEnd
Reorder(arr, source, destination) ==
  SpliceIn(SpliceOut(arr, source), destination, arr[source + 1])

\* a reorder that keeps the position each widget had
UpdatePositionsKeep(newLayout) == newLayout

\* updatedLayout of handleDragEnd: position re-derived from the index
UpdatePositions(newLayout) ==
  [x \in 1..Len(newLayout) |-> [newLayout[x] EXCEPT !.position = x - 1]]

\* updates for the rows whose position changed only
UpdatesOfChanged(updatedLayout) ==
  LET all == [x \in 1..Len(updatedLayout) |->
                [id |-> updatedLayout[x].id, position |-> updatedLayout[x].position]]
      Changed(u) == \E y \in DOMAIN layout :
                       layout[y].id = u.id /\ layout[y].position # u.position
  IN SelectSeq(all, Changed)

\* updates of handleDragEnd: one {id, position} per widget of updatedLayout
Updates(updatedLayout) ==
  [x \in 1..Len(updatedLayout) |->
     [id |-> updatedLayout[x].id, position |-> updatedLayout[x].position]]

\* ---- the remote table ---------------------------------------------------
\* default rows with positions counted from 1
DefaultWidgetsFromOne ==
  [x \in 1..Len(AVAILABLE_WIDGETS) |->
     [widget_type |-> AVAILABLE_WIDGETS[x], position |-> x,
      is_active |-> TRUE, size |-> "medium", user_id |-> UserId]]

\* default rows that keep the widget order of the layout on screen
DefaultWidgetsOfLayout ==
  [x \in 1..Len(AVAILABLE_WIDGETS) |->
     [widget_type |-> IF x \in DOMAIN layout THEN layout[x].widget_type
                      ELSE AVAILABLE_WIDGETS[x],
      position |-> x - 1, is_active |-> TRUE, size |-> "medium",
      user_id |-> UserId]]

\* defaultWidgets of createDefaultLayout
DefaultWidgets ==
  [x \in 1..Len(AVAILABLE_WIDGETS) |->
     [widget_type |-> AVAILABLE_WIDGETS[x], position |-> x - 1,
      is_active |-> TRUE, size |-> "medium", user_id |-> UserId]]

\* rows the store returns for .insert(payload).select(): the payload rows with
\* the ids the store assigned, in payload order
InsertedRows(payload, firstId) ==
  [x \in 1..Len(payload) |->
     [id |-> firstId + x - 1, widget_type |-> payload[x].widget_type,
      position |-> payload[x].position, is_active |-> payload[x].is_active,
      size |-> payload[x].size, user_id |-> payload[x].user_id]]

MinPosition(rows) == CHOOSE m \in {r.position : r \in rows} :
                        \A r \in rows : m <= r.position

\* .order('position'): the rows by ascending position; the store does not say
\* in which order rows of equal position come, the model lets it return them in
\* either scan order (ascending or descending id)
RECURSIVE Ordered(_, _)
Ordered(rows, ascending) ==
  IF rows = {} THEN <<>>
  ELSE LET tied == {q \in rows : q.position = MinPosition(rows)}
           first == CHOOSE q \in tied :
                      \A z \in tied : IF ascending THEN q.id <= z.id ELSE q.id >= z.id
       IN <<first>> \o Ordered(rows \ {first}, ascending)

OrderByPosition(rows) == {Ordered(rows, TRUE), Ordered(rows, FALSE)}

\* .select('*').eq('user_id', user?.id)
RowsOfUser(table, uid) == {r \in table : r.user_id = uid}

\* .update({position}).eq('id', id)
UpdatePosition(table, id, position) ==
  {IF r.id = id THEN [r EXCEPT !.position = position] ELSE r : r \in table}

\* .delete().eq('user_id', user?.id)
DeleteOfUser(table, uid) == {r \in table : r.user_id # uid}

\* ---- async functions in progress ----------------------------------------
\* reqs: calls in flight (0 for the one call of a fetch, insert or delete, the
\* index in updates for a position update); resps: responses on their way
\* back; answered: the position updates whose response has arrived.
NewProc(kind, ep, updates, reqs) ==
  [kind |-> kind, epoch |-> ep, reqs |-> reqs, resps |-> {},
   updates |-> updates, answered |-> {}, fromReset |-> FALSE]

Running(q) == q.reqs # {} \/ q.resps # {}

\* an async function that has returned is no longer in procs
Returned(ps) == SelectSeq(ps, Running)

Response(status, data) == [status |-> status, data |-> data]

\* what the bound counts: drag-end events, resets, re-mounts, failed calls
Events == nDrags + nResets + (epoch - 1) + failures

\* outcomes of a remote call: data returned, error value returned, exception
Outcomes == IF Events < MaxEvents THEN {"ok", "error", "throw"} ELSE {"ok"}

Failed(status) == status # "ok"

Toast(kind) == [toasts EXCEPT ![kind] = @ + 1]

ErrorToasts == toasts["saveError"] + toasts["resetError"]

Init ==
  /\ remote = {}
  /\ nextId = 1
  /\ layout = <<>>
  /\ loading = TRUE
  /\ epoch = 1
  /\ procs = <<NewProc("fetch", 1, <<>>, {0})>>
  /\ toasts = [k \in ToastKinds |-> 0]
  /\ failures = 0
  /\ nDrags = 0
  /\ nResets = 0
  /\ layoutBy = "init"
  /\ NoView

\* setLayout / setLoading of an instance that is no longer mounted do nothing
Mounted(p) == procs[p].epoch = epoch

\* ---- the store serves a request -----------------------------------------
\* select('*').eq('user_id', ...).order('position') of fetchDashboardLayout
ServeSelect(p) ==
  /\ procs[p].kind = "fetch"
  /\ 0 \in procs[p].reqs
  /\ \E status \in Outcomes :
       /\ \E data \in (IF Failed(status) THEN {<<>>}
                       ELSE OrderByPosition(RowsOfUser(remote, UserId))) :
            procs' = [procs EXCEPT ![p].reqs = {},
                                   ![p].resps = {Response(status, data)}]
       /\ failures' = IF Failed(status) THEN failures + 1 ELSE failures
  /\ UNCHANGED <<viewVars, remote, nextId, layout, loading, epoch, toasts, nDrags,
                 nResets, layoutBy>>

\* insert(defaultWidgets).select() of createDefaultLayout
ServeInsert(p) ==
  /\ procs[p].kind = "create"
  /\ 0 \in procs[p].reqs
  /\ \E status \in Outcomes :
       LET rows == InsertedRows(DefaultWidgets, nextId) IN
       IF Failed(status)
       THEN /\ procs' = [procs EXCEPT ![p].reqs = {},
                                      ![p].resps = {Response(status, <<>>)}]
            /\ failures' = failures + 1
            /\ UNCHANGED <<remote, nextId>>
       ELSE /\ procs' = [procs EXCEPT ![p].reqs = {},
                                      ![p].resps = {Response(status, rows)}]
            /\ remote' = remote \cup Range(rows)
            /\ nextId' = nextId + Len(rows)
            /\ UNCHANGED failures
  /\ UNCHANGED <<viewVars, layout, loading, epoch, toasts, nDrags, nResets, layoutBy>>

\* delete().eq('user_id', ...) of resetLayout
ServeDelete(p) ==
  /\ procs[p].kind = "reset"
  /\ 0 \in procs[p].reqs
  /\ \E status \in Outcomes :
       /\ procs' = [procs EXCEPT ![p].reqs = {},
                                 ![p].resps = {Response(status, <<>>)}]
       /\ remote' = IF Failed(status) THEN remote
                    ELSE DeleteOfUser(remote, UserId)
       /\ failures' = IF Failed(status) THEN failures + 1 ELSE failures
  /\ UNCHANGED <<viewVars, nextId, layout, loading, epoch, toasts, nDrags, nResets,
                 layoutBy>>

\* ---- the view ------------------------------------------------------------
\* a load that gives up when its fetch failed, creating nothing
fetchDashboardLayoutNoFallback(p, r) ==
  /\ procs[p].kind = "fetch"
  /\ r \in procs[p].resps
  /\ IF r.status = "ok" /\ Len(r.data) > 0
     THEN /\ procs' = Returned([procs EXCEPT ![p].resps = {}])
          /\ layout' = IF Mounted(p) THEN r.data ELSE layout
          /\ layoutBy' = IF Mounted(p) THEN "load" ELSE layoutBy
     ELSE IF Failed(r.status)
     THEN /\ procs' = Returned([procs EXCEPT ![p].resps = {}])
          /\ UNCHANGED <<layout, layoutBy>>
     ELSE /\ procs' = [procs EXCEPT ![p].kind = "create", ![p].resps = {},
                                    ![p].reqs = {0}]
          /\ UNCHANGED <<layout, layoutBy>>
  /\ loading' = IF Mounted(p) THEN FALSE ELSE loading
  /\ UNCHANGED <<viewVars, remote, nextId, epoch, toasts, failures, nDrags, nResets>>

\* fetchDashboardLayout from the response of the select on: a non-empty result
\* is adopted; an error, an exception or an empty result calls
\* createDefaultLayout (not awaited), whose insert is issued at once; finally
\* setLoading(false)
fetchDashboardLayout(p, r) ==
  /\ procs[p].kind = "fetch"
  /\ r \in procs[p].resps
  /\ IF r.status = "ok" /\ Len(r.data) > 0
     THEN /\ procs' = Returned([procs EXCEPT ![p].resps = {}])
          /\ layout' = IF Mounted(p) THEN r.data ELSE layout
          /\ layoutBy' = IF Mounted(p) THEN "load" ELSE layoutBy
     ELSE /\ procs' = [procs EXCEPT ![p].kind = "create", ![p].resps = {},
                                    ![p].reqs = {0}]
          /\ UNCHANGED <<layout, layoutBy>>
  /\ loading' = IF Mounted(p) THEN FALSE ELSE loading
  /\ UNCHANGED <<viewVars, remote, nextId, epoch, toasts, failures, nDrags, nResets>>

\* createDefaultLayout from the response of the insert on: the returned rows
\* are adopted; an error or an exception is logged to the console only.  When
\* resetLayout awaited it, resetLayout goes on to its success notification.
createDefaultLayout(p, r) ==
  /\ procs[p].kind = "create"
  /\ r \in procs[p].resps
  /\ procs' = Returned([procs EXCEPT ![p].resps = {}])
  /\ IF r.status = "ok" /\ Mounted(p)
     THEN layout' = r.data /\ layoutBy' = "default"
     ELSE UNCHANGED <<layout, layoutBy>>
  /\ toasts' = IF procs[p].fromReset THEN Toast("resetOk") ELSE toasts
  /\ UNCHANGED <<viewVars, remote, nextId, loading, epoch, failures, nDrags, nResets>>

\* a loop that issues every update without awaiting
IssueAll(updates) == 1..Len(updates)

\* the updates handleDragEnd issues when it enters its loop
IssueFirst(updates) == IF Len(updates) > 0 THEN {1} ELSE {}

\* the updates handleDragEnd issues when the response to update i has arrived
IssueNext(updates, i) == IF i < Len(updates) THEN {i + 1} ELSE {}

\* handleDragEnd past its guard: the optimistic setLayout, then the loop
\* issues its first update
Drop(source, dest) ==
  LET updatedLayout == UpdatePositions(Reorder(layout, source, dest))
      updates == Updates(updatedLayout)
  IN /\ layout' = updatedLayout
     /\ layoutBy' = "drag"
     /\ procs' = Returned(Append(procs,
                   NewProc("drag", epoch, updates, IssueFirst(updates))))

\* the widgets the dashboard renders as draggable cards, each with its index
\* in this list: layout.filter(widget => widget.is_active)
IsActive(widget) == widget.is_active

Rendered(rows) == SelectSeq(rows, IsActive)

\* a drag-end event the library can deliver for the rendered cards; the bound
\* of the model limits how many are delivered
DragEvent(source, destination) ==
  /\ ~loading
  /\ Events < MaxEvents
  /\ source \in 0..(Len(Rendered(layout)) - 1)
  /\ destination \subseteq 0..(Len(Rendered(layout)) - 1)
  /\ Cardinality(destination) <= 1

\* a handler without the guard on result.destination, reading an absent
\* destination as index 0
handleDragEndUnguarded(source, destination) ==
  /\ DragEvent(source, destination)
  /\ nDrags' = nDrags + 1
  /\ Drop(source, IF destination = {} THEN 0 ELSE CHOOSE d \in destination : TRUE)
  /\ UNCHANGED <<viewVars, remote, nextId, loading, epoch, toasts, failures, nResets>>

\* the drag-end event: result.source.index, result.destination (absent: {})
handleDragEnd(source, destination) ==
  /\ DragEvent(source, destination)
  /\ nDrags' = nDrags + 1
  /\ IF destination = {}
     THEN UNCHANGED <<layout, procs, layoutBy>>
     ELSE Drop(source, CHOOSE d \in destination : TRUE)
  /\ UNCHANGED <<viewVars, remote, nextId, loading, epoch, toasts, failures, nResets>>

\* a handler whose catch block undoes the updates it has made so far, putting
\* the rows back at the catalog position of their widget type
PositionUpdateUndo(p, i) ==
  /\ procs[p].kind = "drag"
  /\ i \in procs[p].reqs
  /\ \E status \in Outcomes :
       /\ remote' =
            IF status = "throw"
            THEN {IF \E j \in procs[p].answered : procs[p].updates[j].id = r.id
                  THEN [r EXCEPT !.position =
                          (CHOOSE x \in DOMAIN AVAILABLE_WIDGETS :
                             AVAILABLE_WIDGETS[x] = r.widget_type) - 1]
                  ELSE r : r \in remote}
            ELSE IF Failed(status) THEN remote
            ELSE UpdatePosition(remote, procs[p].updates[i].id,
                                procs[p].updates[i].position)
       /\ failures' = IF Failed(status) THEN failures + 1 ELSE failures
       /\ IF status = "throw"
          THEN /\ procs' = Returned([procs EXCEPT ![p].reqs = @ \ {i}])
               /\ toasts' = Toast("saveError")
          ELSE /\ procs' = Returned([procs EXCEPT
                    ![p].reqs = (@ \ {i}) \cup IssueNext(procs[p].updates, i),
                    ![p].answered = @ \cup {i}])
               /\ UNCHANGED toasts
  /\ UNCHANGED <<viewVars, nextId, layout, loading, epoch, nDrags, nResets, layoutBy>>

\* a handler whose catch block puts local layout back in the order the store
\* holds
PositionUpdateRevert(p, i) ==
  /\ procs[p].kind = "drag"
  /\ i \in procs[p].reqs
  /\ \E status \in Outcomes :
       /\ remote' = IF Failed(status) THEN remote
                    ELSE UpdatePosition(remote, procs[p].updates[i].id,
                                        procs[p].updates[i].position)
       /\ failures' = IF Failed(status) THEN failures + 1 ELSE failures
       /\ IF status = "throw"
          THEN /\ procs' = Returned([procs EXCEPT ![p].reqs = @ \ {i}])
               /\ toasts' = Toast("saveError")
               /\ layout' = CHOOSE rows \in OrderByPosition(remote) : TRUE
          ELSE /\ procs' = Returned([procs EXCEPT
                    ![p].reqs = (@ \ {i}) \cup IssueNext(procs[p].updates, i),
                    ![p].answered = @ \cup {i}])
               /\ UNCHANGED <<toasts, layout>>
  /\ UNCHANGED <<viewVars, nextId, loading, epoch, nDrags, nResets, layoutBy>>

\* update({position}).eq('id', id) of handleDragEnd and the loop from its
\* response on: the returned error value is not read; an exception leaves the
\* loop for the catch block
PositionUpdate(p, i) ==
  /\ procs[p].kind = "drag"
  /\ i \in procs[p].reqs
  /\ \E status \in Outcomes :
       /\ remote' = IF Failed(status) THEN remote
                    ELSE UpdatePosition(remote, procs[p].updates[i].id,
                                        procs[p].updates[i].position)
       /\ failures' = IF Failed(status) THEN failures + 1 ELSE failures
       /\ IF status = "throw"
          THEN /\ procs' = Returned([procs EXCEPT ![p].reqs = @ \ {i}])
               /\ toasts' = Toast("saveError")
          ELSE /\ procs' = Returned([procs EXCEPT
                    ![p].reqs = (@ \ {i}) \cup IssueNext(procs[p].updates, i),
                    ![p].answered = @ \cup {i}])
               /\ UNCHANGED toasts
  /\ UNCHANGED <<viewVars, nextId, layout, loading, epoch, nDrags, nResets, layoutBy>>

\* the reset button: the delete is issued
resetLayout ==
  /\ ~loading
  /\ Events < MaxEvents
  /\ nResets' = nResets + 1
  /\ procs' = Append(procs, NewProc("reset", epoch, <<>>, {0}))
  /\ UNCHANGED <<viewVars, remote, nextId, layout, loading, epoch, toasts, failures,
                 nDrags, layoutBy>>

\* resetLayout from the response of the delete on: the returned error value is
\* not read and createDefaultLayout is awaited; an exception goes to the catch
\* block
DeleteReturn(p, r) ==
  /\ procs[p].kind = "reset"
  /\ r \in procs[p].resps
  /\ IF r.status = "throw"
     THEN /\ procs' = Returned([procs EXCEPT ![p].resps = {}])
          /\ toasts' = Toast("resetError")
     ELSE /\ procs' = [procs EXCEPT ![p].kind = "create", ![p].resps = {},
                                    ![p].reqs = {0}, ![p].fromReset = TRUE]
          /\ UNCHANGED toasts
  /\ UNCHANGED <<viewVars, remote, nextId, layout, loading, epoch, failures, nDrags,
                 nResets, layoutBy>>

\* the user leaves the dashboard and comes back: a new instance of Apps mounts
\* with the initial useState values and runs the effect; calls of the previous
\* instance stay in flight
Mount ==
  /\ Events < MaxEvents
  /\ epoch' = epoch + 1
  /\ layout' = <<>>
  /\ loading' = TRUE
  /\ layoutBy' = "init"
  /\ procs' = Append(procs, NewProc("fetch", epoch + 1, <<>>, {0}))
  /\ UNCHANGED <<viewVars, remote, nextId, toasts, failures, nDrags, nResets>>

Next ==
  \/ \E p \in DOMAIN procs : ServeSelect(p)
  \/ \E p \in DOMAIN procs : ServeInsert(p)
  \/ \E p \in DOMAIN procs : ServeDelete(p)
  \/ \E p \in DOMAIN procs : \E r \in procs[p].resps : fetchDashboardLayout(p, r)
  \/ \E p \in DOMAIN procs : \E r \in procs[p].resps : createDefaultLayout(p, r)
  \/ \E p \in DOMAIN procs : \E r \in procs[p].resps : DeleteReturn(p, r)
  \/ \E source \in 0..(Len(layout) - 1) :
       \E destination \in {{}} \cup {{d} : d \in 0..(Len(layout) - 1)} :
         handleDragEnd(source, destination)
  \/ \E p \in DOMAIN procs : \E i \in procs[p].reqs : PositionUpdate(p, i)
  \/ resetLayout
  \/ Mount

Spec == Init /\ [][Next]_<<vars, viewVars>>

\* ---- the dashboard opened on stored rows -------------------------------------
\* widget types whose stored row has is_active false
InactiveSets == {{}, {"bucket-list"}, {"dating-journal"}}

\* the user's rows in dashboard_layout when the dashboard is opened: one row
\* per widget type at its catalog position, some of them not active
StoredRows(inactive) ==
  {[id |-> x, widget_type |-> AVAILABLE_WIDGETS[x], position |-> x - 1,
    is_active |-> AVAILABLE_WIDGETS[x] \notin inactive, size |-> "medium",
    user_id |-> UserId] : x \in DOMAIN AVAILABLE_WIDGETS}

\* Apps mounts with rows in the table: initial useState values, the effect has
\* called fetchDashboardLayout
StoredInit ==
  /\ remote \in {StoredRows(inactive) : inactive \in InactiveSets}
  /\ nextId = Len(AVAILABLE_WIDGETS) + 1
  /\ layout = <<>>
  /\ loading = TRUE
  /\ epoch = 1
  /\ procs = <<NewProc("fetch", 1, <<>>, {0})>>
  /\ toasts = [k \in ToastKinds |-> 0]
  /\ failures = 0
  /\ nDrags = 0
  /\ nResets = 0
  /\ layoutBy = "init"
  /\ NoView

\* load and reorder
StoredNext ==
  \/ \E p \in DOMAIN procs : ServeSelect(p)
  \/ \E p \in DOMAIN procs : ServeInsert(p)
  \/ \E p \in DOMAIN procs : \E r \in procs[p].resps : fetchDashboardLayout(p, r)
  \/ \E p \in DOMAIN procs : \E r \in procs[p].resps : createDefaultLayout(p, r)
  \/ \E source \in 0..(Len(layout) - 1) :
       \E destination \in {{}} \cup {{d} : d \in 0..(Len(layout) - 1)} :
         handleDragEnd(source, destination)
  \/ \E p \in DOMAIN procs : \E i \in procs[p].reqs : PositionUpdate(p, i)

StoredSpec == StoredInit /\ [][StoredNext]_<<vars, viewVars>>

\* ---- properties -----------------------------------------------------------
Ids(rows) == [x \in DOMAIN rows |-> rows[x].id]

Types(rows) == [x \in DOMAIN rows |-> rows[x].widget_type]

IndexOf(rows, id) == CHOOSE x \in DOMAIN rows : rows[x].id = id

\* the positions are 0..N-1 in display order
Dense(rows) == \A x \in DOMAIN rows : rows[x].position = x - 1

\* the widget that was at index source is at index dest, the other widgets
\* keep their relative order, and nothing but position differs
MovedTo(before, after, source, dest) ==
  /\ Len(after) = Len(before)
  /\ after[dest + 1].id = before[source + 1].id
  /\ \A a, b \in DOMAIN before :
       (a < b /\ a # source + 1 /\ b # source + 1)
         => IndexOf(after, before[a].id) < IndexOf(after, before[b].id)
  /\ \A x \in DOMAIN before :
       [before[x] EXCEPT !.position = 0]
         = [after[IndexOf(after, before[x].id)] EXCEPT !.position = 0]

ExampleLayout ==
  [x \in 1..3 |-> [id |-> x, widget_type |-> AVAILABLE_WIDGETS[x],
                   position |-> x - 1, is_active |-> TRUE, size |-> "medium",
                   user_id |-> UserId]]

\* C1: a drag-end event with source index s and destination index d leaves a
\* local layout with positions 0..N-1, each widget's position its index, the
\* dragged widget at index d and the others in their previous relative order;
\* [bucket-list, dating-journal, dating-ideas] with 2 dragged to 0 gives
\* [dating-ideas:0, bucket-list:1, dating-journal:2].
C1_ReorderDense ==
  [][ /\ \A s, d \in 0..(Len(layout) - 1) :
           handleDragEnd(s, {d}) => Dense(layout') /\ MovedTo(layout, layout', s, d)
      /\ LET ex == UpdatePositions(Reorder(ExampleLayout, 2, 0))
         IN Types(ex) = <<"dating-ideas", "bucket-list", "dating-journal">>
            /\ Dense(ex) ]_vars

\* the first load's default layout after index 2 was dragged to index 0
C1_Witness ==
  /\ layoutBy = "drag"
  /\ nDrags = 1 /\ nResets = 0 /\ epoch = 1
  /\ Types(layout) = <<"dating-ideas", "bucket-list", "dating-journal", "dating-app">>
  /\ Dense(layout)

\* C2 as stated: in every reachable state the local positions are 0..N-1 in
\* display order.
C2_AlwaysDense == Dense(layout)

\* C2 amended: the local positions are 0..N-1 in display order whenever layout
\* was last set by a reorder or by default-layout creation, or is still the
\* initial empty list; a load adopts the positions the store holds.
C2_DenseWhenComputedLocally == layoutBy # "load" => Dense(layout)

\* a reorder has set layout while the store still holds other positions
C2_Witness ==
  /\ layoutBy = "drag"
  /\ \E x \in DOMAIN layout : \E r \in remote :
       r.id = layout[x].id /\ r.position # layout[x].position

\* the position the store holds for the row with this id ({} when no such row)
RemotePositions(id) == {r.position : r \in {q \in remote : q.id = id}}

\* the store holds, for every widget of local layout, the local position
RemoteMatchesLocal ==
  \A x \in DOMAIN layout : RemotePositions(layout[x].id) = {layout[x].position}

\* C3: with no failed call, one mounted dashboard and drags only, once no call
\* is in flight the store holds for every widget its position in local layout.
C3_RemoteEventuallyLocal ==
  (failures = 0 /\ epoch = 1 /\ nResets = 0 /\ procs = <<>>) => RemoteMatchesLocal

\* C4: a failed position update and the handler's reaction to it leave the
\* table as it was: the updates made before it stay committed.
C4_NoUndo ==
  [][ \A p \in DOMAIN procs : \A i \in procs[p].reqs :
        (PositionUpdate(p, i) /\ failures' > failures) => remote' = remote ]_vars

\* after one drag whose persistence stopped at a thrown update: a row written
\* before the failure keeps its new position, the store holds a duplicate
\* position, local positions are 0..N-1
C4_Witness ==
  /\ nDrags = 1 /\ nResets = 0 /\ epoch = 1 /\ procs = <<>>
  /\ toasts["saveError"] = 1
  /\ layoutBy = "drag" /\ Dense(layout) /\ Len(layout) = Len(AVAILABLE_WIDGETS)
  /\ \E r1, r2 \in remote : r1.id # r2.id /\ r1.position = r2.position
  /\ \E x \in DOMAIN layout :
       /\ RemotePositions(layout[x].id) = {x - 1}
       /\ AVAILABLE_WIDGETS[x] # layout[x].widget_type

\* C5: a drag with a destination sets local layout to the reordered layout in
\* the step of the event, before any update has been applied or answered, and
\* no update call, whatever its outcome, changes local layout.
C5_OptimisticNoRollback ==
  [][ /\ \A s, d \in 0..(Len(layout) - 1) :
           handleDragEnd(s, {d}) =>
             /\ MovedTo(layout, layout', s, d)
             /\ remote' = remote
             /\ procs'[Len(procs')].kind = "drag"
             /\ procs'[Len(procs')].answered = {}
      /\ \A p \in DOMAIN procs : \A i \in procs[p].reqs :
           PositionUpdate(p, i) => layout' = layout ]_vars

\* a handler has finished after a thrown update and local layout still holds
\* the reordered layout
C5_Witness ==
  /\ nDrags = 1 /\ nResets = 0 /\ epoch = 1 /\ procs = <<>>
  /\ toasts["saveError"] = 1
  /\ layoutBy = "drag"
  /\ Types(layout) # AVAILABLE_WIDGETS
  /\ ~RemoteMatchesLocal

\* C6: every failed position update, default-layout insert and reset delete,
\* whether it returned an error value or threw, shows an error notification.
C6_EveryFailureNotified ==
  [][ /\ \A p \in DOMAIN procs : \A i \in procs[p].reqs :
           (PositionUpdate(p, i) /\ failures' > failures)
             => ErrorToasts' > ErrorToasts
      /\ \A p \in DOMAIN procs : \A r \in procs[p].resps :
           (Failed(r.status) /\ (createDefaultLayout(p, r) \/ DeleteReturn(p, r)))
             => ErrorToasts' > ErrorToasts ]_vars

\* the drag handler started by this step, if the step started one
Started == procs'[Len(procs')]

\* C7 as stated: an update call is issued only for a row whose position
\* changed, and a drag whose destination is its source issues none.
C7_OnlyChangedRows ==
  [][ \A s, d \in 0..(Len(layout) - 1) :
        handleDragEnd(s, {d}) =>
          /\ s = d => procs' = procs
          /\ s # d => \A i \in Started.reqs :
                        layout[IndexOf(layout, Started.updates[i].id)].position
                          # Started.updates[i].position ]_vars

\* C7 amended: a reorder issues one position-update call for every row of the
\* new layout, in layout order, whether or not the row's position changed;
\* only a thrown call ends the loop early.
C7_EveryRow ==
  [][ /\ \A s, d \in 0..(Len(layout) - 1) :
           handleDragEnd(s, {d}) =>
             /\ Len(procs') = Len(procs) + 1
             /\ Started.kind = "drag"
             /\ Len(Started.updates) = Len(layout)
             /\ \A x \in DOMAIN layout' :
                  Started.updates[x] = [id |-> layout'[x].id, position |-> x - 1]
             /\ 1 \in Started.reqs
      /\ \A p \in DOMAIN procs : \A i \in procs[p].reqs :
           PositionUpdate(p, i) =>
             IF toasts' # toasts THEN TRUE
             ELSE IF i < Len(procs[p].updates)
                  THEN Len(procs') = Len(procs) /\ (i + 1) \in procs'[p].reqs
                  ELSE Len(procs') = Len(procs) - 1 ]_vars

\* a drag dropped on its own index is writing the unchanged position of the
\* last row
C7_Witness ==
  /\ nDrags = 1 /\ nResets = 0 /\ epoch = 1 /\ failures = 0
  /\ layoutBy = "drag"
  /\ Types(layout) = AVAILABLE_WIDGETS
  /\ Len(procs) = 1
  /\ procs[1].reqs = {Len(AVAILABLE_WIDGETS)}

\* C8: a reorder has at most one update call in flight, and the call in flight
\* for index k is preceded by the responses to all calls for lower indices.
C8_OneAtATime ==
  \A p \in DOMAIN procs :
    procs[p].kind = "drag" =>
      /\ Cardinality(procs[p].reqs) <= 1
      /\ \A i \in procs[p].reqs : procs[p].answered = 1..(i - 1)

\* the third update of a reorder is in flight
C8_Witness ==
  \E p \in DOMAIN procs :
    procs[p].kind = "drag" /\ procs[p].reqs = {3} /\ procs[p].answered = {1, 2}

\* C9: a drag-end event without destination changes neither local layout nor
\* the table, issues no call and shows no notification.
C9_NoDestinationNoOp ==
  [][ \A s \in 0..(Len(layout) - 1) :
        handleDragEnd(s, {}) =>
          UNCHANGED <<layout, loading, procs, remote, nextId, toasts, failures>> ]_vars

\* the one event so far was a drag-end that set nothing
C9_Witness ==
  /\ nDrags = 1 /\ nResets = 0 /\ epoch = 1
  /\ layoutBy = "default"
  /\ procs = <<>>
  /\ RemoteMatchesLocal

Sorted(rows) == \A x, y \in DOMAIN rows : x < y => rows[x].position <= rows[y].position

\* C10: a successful fetch with no rows issues the default insert; the insert
\* adds one row per catalog entry (widget_type the catalog id, position the
\* catalog index, active, medium, the user's id) and its rows become local
\* layout when the response arrives; a fetch with rows issues no insert and
\* local layout becomes the fetched rows, which are the user's rows in
\* position order.
C10_LoadOrDefault ==
  [][ /\ \A p \in DOMAIN procs : \A r \in procs[p].resps :
           fetchDashboardLayout(p, r) /\ r.status = "ok" =>
             IF Len(r.data) = 0
             THEN /\ Len(procs') = Len(procs)
                  /\ procs'[p].kind = "create" /\ procs'[p].reqs = {0}
             ELSE /\ \A q \in DOMAIN procs' : procs'[q].kind # "create"
                                                \/ procs'[q] \in Range(procs)
                  /\ Len(procs') = Len(procs) - 1
                  /\ Mounted(p) => layout' = r.data
                  /\ Sorted(r.data)
      /\ \A p \in DOMAIN procs :
           ServeSelect(p) /\ failures' = failures =>
             \A r \in procs'[p].resps :
               /\ Range(r.data) = RowsOfUser(remote, UserId)
               /\ Len(r.data) = Cardinality(RowsOfUser(remote, UserId))
               /\ Sorted(r.data)
      /\ \A p \in DOMAIN procs :
           ServeInsert(p) /\ failures' = failures =>
             /\ remote \subseteq remote'
             /\ Cardinality(remote' \ remote) = Len(AVAILABLE_WIDGETS)
             /\ \A x \in DOMAIN AVAILABLE_WIDGETS :
                  \E row \in remote' \ remote :
                    /\ row.widget_type = AVAILABLE_WIDGETS[x]
                    /\ row.position = x - 1
                    /\ row.is_active /\ row.size = "medium"
                    /\ row.user_id = UserId
             /\ \A r \in procs'[p].resps : Range(r.data) = remote' \ remote
      /\ \A p \in DOMAIN procs : \A r \in procs[p].resps :
           (createDefaultLayout(p, r) /\ r.status = "ok" /\ Mounted(p))
             => layout' = r.data ]_vars

\* a second mount has adopted the rows the first mount's default insert created
C10_Witness ==
  /\ epoch = 2 /\ layoutBy = "load" /\ ~loading
  /\ nextId = Len(AVAILABLE_WIDGETS) + 1
  /\ Types(layout) = AVAILABLE_WIDGETS
  /\ Range(layout) = remote

\* C11: a load whose fetch returned an error or threw goes on as a load whose
\* fetch returned no rows: the default-layout insert is issued in the same
\* step, nothing is shown to the user and local layout stays as it was.
C11_FetchFailureFallsBack ==
  [][ \A p \in DOMAIN procs : \A r \in procs[p].resps :
        (fetchDashboardLayout(p, r) /\ (Failed(r.status) \/ Len(r.data) = 0)) =>
          /\ Len(procs') = Len(procs)
          /\ procs'[p].kind = "create" /\ procs'[p].reqs = {0}
          /\ procs'[p].fromReset = procs[p].fromReset
          /\ toasts' = toasts
          /\ layout' = layout
          /\ remote' = remote ]_vars

\* the first load's fetch failed and the default rows are on screen, with no
\* notification shown
C11_Witness ==
  /\ epoch = 1 /\ nDrags = 0 /\ nResets = 0 /\ failures = 1
  /\ procs = <<>> /\ ~loading
  /\ layoutBy = "default" /\ Types(layout) = AVAILABLE_WIDGETS
  /\ Range(layout) = remote
  /\ \A k \in ToastKinds : toasts[k] = 0

\* a row without its id
Content(row) == [widget_type |-> row.widget_type, position |-> row.position,
                 is_active |-> row.is_active, size |-> row.size,
                 user_id |-> row.user_id]

\* the rows are one per catalog entry, in catalog order, at the catalog index,
\* active and of medium size
CatalogContent(rows) ==
  /\ Len(rows) = Len(AVAILABLE_WIDGETS)
  /\ \A x \in DOMAIN rows :
       Content(rows[x]) = [widget_type |-> AVAILABLE_WIDGETS[x], position |-> x - 1,
                           is_active |-> TRUE, size |-> "medium", user_id |-> UserId]

\* C12: every default-layout insert that succeeds returns, and every reset
\* that adopts its rows puts on screen, the same content whatever the layout
\* was before: the catalog's widget types in catalog order at positions 0..3,
\* active, medium; only the ids are new.
C12_DefaultDeterministic ==
  [][ /\ \A p \in DOMAIN procs :
           ServeInsert(p) /\ failures' = failures =>
             \A r \in procs'[p].resps :
               /\ CatalogContent(r.data)
               /\ \A x \in DOMAIN r.data : \A old \in remote : r.data[x].id # old.id
      /\ \A p \in DOMAIN procs : \A r \in procs[p].resps :
           (createDefaultLayout(p, r) /\ r.status = "ok" /\ Mounted(p))
             => CatalogContent(layout') ]_vars

\* two resets have run one after the other with no failure; the second one's
\* rows are on screen
C12_Witness ==
  /\ nResets = 2 /\ failures = 0 /\ epoch = 1 /\ procs = <<>>
  /\ toasts["resetOk"] = 2
  /\ layoutBy = "default" /\ CatalogContent(layout)
  /\ Ids(layout) = <<9, 10, 11, 12>>
  /\ Range(layout) = remote

\* C13: the default-layout insert of a reset is issued in the step in which
\* the response of its delete arrives, not before, and when a reset finishes
\* with its success notification the table holds for the user exactly the
\* default rows that reset inserted.
C13_ResetReplacesAll ==
  [][ /\ resetLayout =>
           /\ Len(procs') = Len(procs) + 1
           /\ Started.kind = "reset" /\ Started.reqs = {0}
      /\ \A q \in Range(procs') \ Range(procs) :
           (q.fromReset /\ q.kind = "create" /\ q.reqs = {0}) =>
             \E p \in DOMAIN procs : \E r \in procs[p].resps :
               DeleteReturn(p, r) /\ procs[p].kind = "reset"
      /\ \A p \in DOMAIN procs : \A r \in procs[p].resps :
           (createDefaultLayout(p, r) /\ procs[p].fromReset) =>
             /\ r.status = "ok"
             /\ CatalogContent(r.data)
             /\ RowsOfUser(remote', UserId) = Range(r.data) ]_vars

\* C14: the table holds at most one row per widget type and user.
C14_OneRowPerWidget ==
  \A r1, r2 \in remote :
    (r1.user_id = r2.user_id /\ r1.widget_type = r2.widget_type) => r1 = r2

\* ---- the CRUD and listing views -------------------------------------------
\* Bucket list, dating journal and dating ideas follow one pattern (fetch the
\* user's rows, submit the form as insert or update, toggle a flag, delete by
\* id, refetch); events and blog only fetch.  Texts that are searched are
\* sequences of characters; an ISO date string is <<day>>, one with a time
\* <<day, time>>, the empty string <<>>; a nullable field is a set of at most
\* one value.  A mutation's response carries nothing the handler reads but the
\* error, so the store applying it and the handler resuming are one step; a
\* select is served and returns in two steps.

\* mutations started and remote calls failed in one behaviour
MaxCalls == 2

CrudViews == {"bucket-list", "dating-journal", "dating-ideas"}

ListViews == {"events", "blog"}

OtherUser == "user-2"

\* the flag a view toggles, with the value the store gives it on insert
FlagOf(v) == IF v = "bucket-list" THEN <<"is_completed">>
             ELSE IF v = "dating-ideas" THEN <<"is_favorite">>
             ELSE <<>>

\* initial formData and the formData of resetForm
EmptyForm(v) ==
  IF v = "bucket-list"
  THEN [title |-> "", description |-> "", category |-> "", target_date |-> <<>>]
  ELSE IF v = "dating-ideas"
  THEN [title |-> "", description |-> "", category |-> "", estimated_cost |-> "",
        estimated_duration |-> "", location_type |-> ""]
  ELSE IF v = "dating-journal"
  THEN [person_name |-> "", date |-> <<>>, location |-> "",
        experience_rating |-> 5, notes |-> "", will_see_again |-> {}]
  ELSE <<>>

\* what the user fills into the form
FilledForms(v) ==
  IF v = "bucket-list"
  THEN {[title |-> "Marathon", description |-> "Laufen", category |-> "Fitness",
         target_date |-> <<20250601>>]}
  ELSE IF v = "dating-ideas"
  THEN {[title |-> "Kochen", description |-> "Zuhause", category |-> "Kulinarisch",
         estimated_cost |-> "Kostenlos", estimated_duration |-> "3-5h",
         location_type |-> "Zuhause"]}
  ELSE IF v = "dating-journal"
  THEN {[person_name |-> "Noa", date |-> <<20250512>>, location |-> "Kino",
         experience_rating |-> 3, notes |-> "gut", will_see_again |-> {FALSE}]}
  ELSE {}

\* the inputs marked required hold a value
RequiredFilled(v, form) ==
  IF v = "dating-journal"
  THEN form.person_name # "" /\ form.date # <<>> /\ form.location # ""
       /\ form.notes # ""
  ELSE form.title # "" /\ form.description # ""

\* String.prototype.split('T')[0]
DatePart(s) == IF s = <<>> THEN <<>> ELSE <<s[1]>>

\* formData.target_date || null
OrNull(s) == IF s = <<>> THEN {} ELSE {s}

\* itemData / ideaData / entryData of handleSubmit
ItemData(v, form) ==
  IF v = "bucket-list"
  THEN [title |-> form.title, description |-> form.description,
        category |-> form.category, user_id |-> UserId,
        target_date |-> OrNull(form.target_date)]
  ELSE [user_id |-> UserId] @@ form

\* the formData startEdit sets for a row
FormOf(v, row) ==
  IF v = "bucket-list"
  THEN [title |-> row.title, description |-> row.description,
        category |-> row.category,
        target_date |-> IF row.target_date = {} THEN <<>>
                        ELSE DatePart(CHOOSE d \in row.target_date : TRUE)]
  ELSE [f \in DOMAIN EmptyForm(v) |-> row[f]]

\* rows a table holds when the view is opened
SeedRows(v) ==
  IF v = "bucket-list"
  THEN {[id |-> 1, created_at |-> 1, user_id |-> UserId, title |-> "Paris",
         description |-> "Reise", category |-> "Reisen",
         target_date |-> {<<20250401, 120000>>}, is_completed |-> FALSE],
        [id |-> 2, created_at |-> 2, user_id |-> UserId, title |-> "Buch",
         description |-> "Schreiben", category |-> "Kreativ",
         target_date |-> {}, is_completed |-> TRUE],
        [id |-> 3, created_at |-> 3, user_id |-> OtherUser, title |-> "Segeln",
         description |-> "Ostsee", category |-> "Abenteuer",
         target_date |-> {}, is_completed |-> FALSE]}
  ELSE IF v = "dating-ideas"
  THEN {[id |-> 1, created_at |-> 1, user_id |-> UserId, title |-> "Picknick",
         description |-> "Im Park", category |-> "Romantisch",
         estimated_cost |-> "Kostenlos", estimated_duration |-> "1-3h",
         location_type |-> "Drinnen", is_favorite |-> FALSE],
        [id |-> 2, created_at |-> 2, user_id |-> UserId, title |-> "Klettern",
         description |-> "Halle", category |-> "Sport",
         estimated_cost |-> "Kostenlos", estimated_duration |-> "3-5h",
         location_type |-> "Bar", is_favorite |-> TRUE],
        [id |-> 3, created_at |-> 3, user_id |-> OtherUser, title |-> "Kino",
         description |-> "Film", category |-> "Kultur",
         estimated_cost |-> "Kostenlos", estimated_duration |-> "1-3h",
         location_type |-> "Drinnen", is_favorite |-> FALSE]}
  ELSE IF v = "dating-journal"
  THEN {[id |-> 1, created_at |-> 1, user_id |-> UserId, person_name |-> "Alex",
         date |-> <<20250510>>, location |-> "Cafe", experience_rating |-> 4,
         notes |-> "nett", will_see_again |-> {TRUE}],
        [id |-> 2, created_at |-> 2, user_id |-> UserId, person_name |-> "Kim",
         date |-> <<20250512>>, location |-> "Kino", experience_rating |-> 5,
         notes |-> "gut", will_see_again |-> {}],
        [id |-> 3, created_at |-> 3, user_id |-> OtherUser, person_name |-> "Sam",
         date |-> <<20250511>>, location |-> "Bar", experience_rating |-> 2,
         notes |-> "nein", will_see_again |-> {FALSE}]}
  ELSE IF v = "events"
  THEN {[id |-> 1, created_at |-> 1, user_id |-> OtherUser, is_public |-> TRUE,
         title |-> <<"J", "a", "z", "z">>, description |-> <<"l", "i", "v", "e">>,
         location |-> <<"B", "a", "r">>, event_date |-> 20250701,
         category |-> "Musik", distance_km |-> {0}],
        [id |-> 2, created_at |-> 2, user_id |-> UserId, is_public |-> FALSE,
         title |-> <<"R", "u", "n">>, description |-> <<"1", "0", "k">>,
         location |-> <<"P", "a", "r", "k">>, event_date |-> 20250702,
         category |-> "Sport", distance_km |-> {5}],
        [id |-> 3, created_at |-> 3, user_id |-> OtherUser, is_public |-> TRUE,
         title |-> <<"Y", "o", "g", "a">>, description |-> <<"a", "m">>,
         location |-> <<"S", "e", "e">>, event_date |-> 20250703,
         category |-> "Sport", distance_km |-> {20}],
        [id |-> 4, created_at |-> 4, user_id |-> OtherUser, is_public |-> TRUE,
         title |-> <<"O", "p", "e", "r">>, description |-> <<"A", "i", "d", "a">>,
         location |-> <<"U", "l", "m">>, event_date |-> 20250704,
         category |-> "Kultur", distance_km |-> {}],
        [id |-> 5, created_at |-> 5, user_id |-> UserId, is_public |-> TRUE,
         title |-> <<"M", "e", "s", "s", "e">>, description |-> <<"j", "o", "b">>,
         location |-> <<"K", "i", "e", "l">>, event_date |-> 20250705,
         category |-> "Business", distance_km |-> {25}],
        [id |-> 6, created_at |-> 6, user_id |-> OtherUser, is_public |-> FALSE,
         title |-> <<"S", "k", "a", "t">>, description |-> <<"a", "b">>,
         location |-> <<"B", "a", "r">>, event_date |-> 20250706,
         category |-> "Social", distance_km |-> {3}]}
  ELSE IF v = "blog"
  THEN {[id |-> 1, created_at |-> 1, user_id |-> OtherUser, is_published |-> TRUE,
         title |-> "Hallo", content |-> "Text", author |-> "Ana", tags |-> {}],
        [id |-> 2, created_at |-> 2, user_id |-> UserId, is_published |-> FALSE,
         title |-> "Entwurf", content |-> "Text", author |-> "Ich", tags |-> {}],
        [id |-> 3, created_at |-> 3, user_id |-> OtherUser, is_published |-> FALSE,
         title |-> "Privat", content |-> "Text", author |-> "Ana", tags |-> {}]}
  ELSE {}

\* ---- the store behind the views ---------------------------------------------
\* .eq(col, val)
EqFilter(col, val) == [kind |-> "eq", col |-> col, val |-> val]

\* .or(`<flag>.eq.true,user_id.eq.${user?.id}`)
OrFilter(flag, uid) == [kind |-> "or", col |-> flag, val |-> uid]

Matches(row, filter) ==
  IF filter.kind = "eq" THEN row[filter.col] = filter.val
  ELSE row[filter.col] \/ row.user_id = filter.val

\* a call on the view's table: the operation, its filter (none: {}) and the
\* written payload (none: {})
Request(op, filter, payload) == [op |-> op, filter |-> filter, payload |-> payload]

\* the select of fetchItems / fetchEntries / fetchIdeas / fetchEvents / fetchPosts
SelectRequest(v) ==
  IF v = "events" THEN Request("select", {OrFilter("is_public", UserId)}, {})
  ELSE IF v = "blog" THEN Request("select", {OrFilter("is_published", UserId)}, {})
  ELSE Request("select", {EqFilter("user_id", UserId)}, {})

\* .order(...): by date (journal), event_date ascending (events), created_at
OrderKey(v, row) ==
  IF v = "dating-journal" THEN row.date[1]
  ELSE IF v = "events" THEN row.event_date
  ELSE row.created_at

Ascending(v) == v = "events"

\* the rows in the order of the select; rows of equal key come in either scan
\* order (ascending or descending id)
RECURSIVE SortedRows(_, _, _)
SortedRows(v, rows, byId) ==
  IF rows = {} THEN <<>>
  ELSE LET best == {q \in rows : \A z \in rows :
                      IF Ascending(v) THEN OrderKey(v, q) <= OrderKey(v, z)
                      ELSE OrderKey(v, q) >= OrderKey(v, z)}
           first == CHOOSE q \in best :
                      \A z \in best : IF byId THEN q.id <= z.id ELSE q.id >= z.id
       IN <<first>> \o SortedRows(v, rows \ {first}, byId)

Select(v, rows, filter) ==
  LET found == {r \in rows : Matches(r, filter)}
  IN {SortedRows(v, found, TRUE), SortedRows(v, found, FALSE)}

\* the row an insert creates: the payload, the id and created_at the store
\* assigns, the view's flag at its default
InsertedRow(v, payload, id) ==
  payload @@ [id |-> id, created_at |-> id] @@ [f \in Range(FlagOf(v)) |-> FALSE]

\* a store whose delete removes every row of the owner of the addressed row
AppliedToOwner(v, rows, request, id) ==
  IF request.op = "insert"
  THEN rows \cup {InsertedRow(v, p, id) : p \in request.payload}
  ELSE IF request.op = "update"
  THEN {IF \A f \in request.filter : Matches(r, f)
        THEN (CHOOSE p \in request.payload : TRUE) @@ r
        ELSE r : r \in rows}
  ELSE {r \in rows : ~(\E q \in rows : q.user_id = r.user_id
                                        /\ \A f \in request.filter : Matches(q, f))}

\* the table after the store has applied a mutation
Applied(v, rows, request, id) ==
  IF request.op = "insert"
  THEN rows \cup {InsertedRow(v, p, id) : p \in request.payload}
  ELSE IF request.op = "update"
  THEN {IF \A f \in request.filter : Matches(r, f)
        THEN (CHOOSE p \in request.payload : TRUE) @@ r
        ELSE r : r \in rows}
  ELSE {r \in rows : ~(\A f \in request.filter : Matches(r, f))}

\* ---- async functions of a view in progress --------------------------------
\* fn: the function the call is in; req: its remote call in flight; resps: the
\* response on its way back; origin and target: the handler that started it
\* and the id of the row it acted on
NewCall(fn, request, target) ==
  [fn |-> fn, req |-> {request}, resps |-> {}, origin |-> fn, target |-> target]

\* the calls in progress without call c, with call d added, with d in place
\* of c
Without(c) == calls (-) SetToBag({c})

With(d) == calls (+) SetToBag({d})

Instead(c, d) == (calls (-) SetToBag({c})) (+) SetToBag({d})

ViewOutcomes == IF nCalls < MaxCalls THEN {"ok", "error", "throw"} ELSE {"ok"}

Notice(kind) == [notices EXCEPT ![kind] = @ + 1]

\* the dashboard is not mounted
NoDashboard ==
  /\ remote = {}
  /\ nextId = 1
  /\ layout = <<>>
  /\ loading = TRUE
  /\ epoch = 1
  /\ procs = <<>>
  /\ toasts = [k \in ToastKinds |-> 0]
  /\ failures = 0
  /\ nDrags = 0
  /\ nResets = 0
  /\ layoutBy = "init"

\* the view is opened: initial useState values, the effect has called the fetch
ViewInit ==
  /\ view \in CrudViews \cup ListViews
  /\ records \in {{}, SeedRows(view)}
  /\ nextRowId = Cardinality(SeedRows(view)) + 1
  /\ items = <<>>
  /\ viewLoading = TRUE
  /\ isDialogOpen = FALSE
  /\ editingItem = {}
  /\ formData = EmptyForm(view)
  /\ searchTerm = <<>>
  /\ categoryFilter = "all"
  /\ distanceFilter = "all"
  /\ calls = SetToBag({NewCall("fetchItems", SelectRequest(view), {})})
  /\ notices = [k \in NoticeKinds |-> 0]
  /\ nCalls = 0
  /\ NoDashboard

\* the store serves the select of a fetch
ServeFetch(c) ==
  /\ c.fn = "fetchItems"
  /\ \E request \in c.req : \E status \in ViewOutcomes :
       /\ \E data \in (IF Failed(status) THEN {<<>>}
                       ELSE UNION {Select(view, records, f) : f \in request.filter}) :
            calls' = Instead(c, [c EXCEPT !.req = {},
                                            !.resps = {Response(status, data)}])
       /\ nCalls' = IF Failed(status) THEN nCalls + 1 ELSE nCalls
  /\ UNCHANGED <<vars, view, records, nextRowId, items, viewLoading, isDialogOpen,
                 editingItem, formData, searchTerm, categoryFilter,
                 distanceFilter, notices>>

\* a fetch that empties the list when it fails
fetchItemsClearing(c, r) ==
  /\ c.fn = "fetchItems"
  /\ r \in c.resps
  /\ calls' = Without(c)
  /\ items' = IF r.status = "ok" THEN r.data ELSE <<>>
  /\ notices' = IF r.status = "error" THEN Notice("error") ELSE notices
  /\ viewLoading' = FALSE
  /\ UNCHANGED <<vars, view, records, nextRowId, isDialogOpen, editingItem,
                 formData, searchTerm, categoryFilter, distanceFilter, nCalls>>

\* fetchItems / fetchEntries / fetchIdeas / fetchEvents / fetchPosts from the
\* response of the select on: a returned error is notified and the function
\* returns before setItems; an exception is logged to the console; finally
\* setLoading(false)
fetchItems(c, r) ==
  /\ c.fn = "fetchItems"
  /\ r \in c.resps
  /\ calls' = Without(c)
  /\ items' = IF r.status = "ok" THEN r.data ELSE items
  /\ notices' = IF r.status = "error" THEN Notice("error") ELSE notices
  /\ viewLoading' = FALSE
  /\ UNCHANGED <<vars, view, records, nextRowId, isDialogOpen, editingItem,
                 formData, searchTerm, categoryFilter, distanceFilter, nCalls>>

\* a submit that inserts whether or not a record is being edited
handleSubmitInsert ==
  /\ view \in CrudViews
  /\ ~viewLoading
  /\ isDialogOpen
  /\ RequiredFilled(view, formData)
  /\ nCalls < MaxCalls
  /\ calls' = With(NewCall("handleSubmit",
                           Request("insert", {}, {ItemData(view, formData)}), {}))
  /\ nCalls' = nCalls + 1
  /\ UNCHANGED <<vars, view, records, nextRowId, items, viewLoading, isDialogOpen,
                 editingItem, formData, searchTerm, categoryFilter,
                 distanceFilter, notices>>

\* the form is submitted: itemData is built from formData and the user's id and
\* sent as an update of the record being edited, or as an insert when none is
handleSubmit ==
  /\ view \in CrudViews
  /\ ~viewLoading
  /\ isDialogOpen
  /\ RequiredFilled(view, formData)
  /\ nCalls < MaxCalls
  /\ LET data == ItemData(view, formData) IN
     calls' = With(
       IF editingItem # {}
       THEN LET id == (CHOOSE e \in editingItem : TRUE).id
            IN NewCall("handleSubmit",
                       Request("update", {EqFilter("id", id)}, {data}), {id})
       ELSE NewCall("handleSubmit", Request("insert", {}, {data}), {}))
  /\ nCalls' = nCalls + 1
  /\ UNCHANGED <<vars, view, records, nextRowId, items, viewLoading, isDialogOpen,
                 editingItem, formData, searchTerm, categoryFilter,
                 distanceFilter, notices>>

\* a handler that does not fetch the list again after its mutation
ResumedNoRefetch(c, status) ==
  LET request == CHOOSE q \in c.req : TRUE IN
  IF Failed(status)
  THEN /\ calls' = Without(c)
       /\ notices' = Notice("error")
       /\ nCalls' = nCalls + 1
       /\ UNCHANGED <<records, nextRowId>>
  ELSE /\ records' = Applied(view, records, request, nextRowId)
       /\ nextRowId' = IF request.op = "insert" THEN nextRowId + 1 ELSE nextRowId
       /\ calls' = Without(c)
       /\ notices' = Notice("ok")
       /\ UNCHANGED nCalls

\* a handler from the response of its mutation on: a returned error is thrown
\* and, like an exception of the call, notified in the catch block; a success
\* is notified and the list is fetched again (not awaited)
Resumed(c, status) ==
  LET request == CHOOSE q \in c.req : TRUE IN
  IF Failed(status)
  THEN /\ calls' = Without(c)
       /\ notices' = Notice("error")
       /\ nCalls' = nCalls + 1
       /\ UNCHANGED <<records, nextRowId>>
  ELSE /\ records' = Applied(view, records, request, nextRowId)
       /\ nextRowId' = IF request.op = "insert" THEN nextRowId + 1 ELSE nextRowId
       /\ calls' = Instead(c, [c EXCEPT !.fn = "fetchItems",
                                          !.req = {SelectRequest(view)}])
       /\ notices' = Notice("ok")
       /\ UNCHANGED nCalls

\* a submit that closes the dialog and clears the form whatever the outcome
SubmitReturnClosing(c) ==
  /\ c.fn = "handleSubmit"
  /\ c.req # {}
  /\ \E status \in ViewOutcomes : Resumed(c, status)
  /\ formData' = EmptyForm(view)
  /\ editingItem' = {}
  /\ isDialogOpen' = FALSE
  /\ UNCHANGED <<vars, view, items, viewLoading, searchTerm, categoryFilter,
                 distanceFilter>>

\* handleSubmit from the response of its insert or update on: a success also
\* clears the form and the edit target and closes the dialog
SubmitReturn(c) ==
  /\ c.fn = "handleSubmit"
  /\ c.req # {}
  /\ \E status \in ViewOutcomes :
       /\ Resumed(c, status)
       /\ IF Failed(status)
          THEN UNCHANGED <<formData, editingItem, isDialogOpen>>
          ELSE /\ formData' = EmptyForm(view)
               /\ editingItem' = {}
               /\ isDialogOpen' = FALSE
  /\ UNCHANGED <<vars, view, items, viewLoading, searchTerm, categoryFilter,
                 distanceFilter>>

\* toggleComplete / toggleFavorite of the card at index x of the list: an
\* update of the flag alone, addressed by the row's id
toggleComplete(x) ==
  /\ FlagOf(view) # <<>>
  /\ ~viewLoading
  /\ ~isDialogOpen
  /\ x \in DOMAIN items
  /\ nCalls < MaxCalls
  /\ calls' = With(
       NewCall("toggleComplete",
               Request("update", {EqFilter("id", items[x].id)},
                       {[f \in Range(FlagOf(view)) |-> ~items[x][f]]}),
               {items[x].id}))
  /\ nCalls' = nCalls + 1
  /\ UNCHANGED <<vars, view, records, nextRowId, items, viewLoading, isDialogOpen,
                 editingItem, formData, searchTerm, categoryFilter,
                 distanceFilter, notices>>

\* toggleComplete / toggleFavorite from the response of the update on
ToggleReturn(c) ==
  /\ c.fn = "toggleComplete"
  /\ c.req # {}
  /\ \E status \in ViewOutcomes : Resumed(c, status)
  /\ UNCHANGED <<vars, view, items, viewLoading, isDialogOpen, editingItem,
                 formData, searchTerm, categoryFilter, distanceFilter>>

\* deleteItem / deleteEntry / deleteIdea of the card at index x of the list: a
\* delete addressed by the row's id
deleteItem(x) ==
  /\ view \in CrudViews
  /\ ~viewLoading
  /\ ~isDialogOpen
  /\ x \in DOMAIN items
  /\ nCalls < MaxCalls
  /\ calls' = With(
       NewCall("deleteItem",
               Request("delete", {EqFilter("id", items[x].id)}, {}),
               {items[x].id}))
  /\ nCalls' = nCalls + 1
  /\ UNCHANGED <<vars, view, records, nextRowId, items, viewLoading, isDialogOpen,
                 editingItem, formData, searchTerm, categoryFilter,
                 distanceFilter, notices>>

\* deleteItem / deleteEntry / deleteIdea from the response of the delete on
DeleteItemReturn(c) ==
  /\ c.fn = "deleteItem"
  /\ c.req # {}
  /\ \E status \in ViewOutcomes : Resumed(c, status)
  /\ UNCHANGED <<vars, view, items, viewLoading, isDialogOpen, editingItem,
                 formData, searchTerm, categoryFilter, distanceFilter>>

\* the edit button of the card at index x (the cards cannot be reached while
\* the modal dialog is open)
startEdit(x) ==
  /\ view \in CrudViews
  /\ ~viewLoading
  /\ ~isDialogOpen
  /\ x \in DOMAIN items
  /\ editingItem' = {items[x]}
  /\ formData' = FormOf(view, items[x])
  /\ isDialogOpen' = TRUE
  /\ UNCHANGED <<vars, view, records, nextRowId, items, viewLoading, searchTerm,
                 categoryFilter, distanceFilter, calls, notices, nCalls>>

\* resetForm
resetForm == formData' = EmptyForm(view) /\ editingItem' = {}

\* a dialog that keeps the form and the edit target when it is closed
onOpenChangeKeeping(open) ==
  /\ view \in CrudViews
  /\ ~viewLoading
  /\ open # isDialogOpen
  /\ isDialogOpen' = open
  /\ UNCHANGED <<formData, editingItem>>
  /\ UNCHANGED <<vars, view, records, nextRowId, items, viewLoading, searchTerm,
                 categoryFilter, distanceFilter, calls, notices, nCalls>>

\* onOpenChange of the dialog: the 'new' button opens it, leaving it closes it
\* and resets the form
onOpenChange(open) ==
  /\ view \in CrudViews
  /\ ~viewLoading
  /\ open # isDialogOpen
  /\ isDialogOpen' = open
  /\ IF open THEN UNCHANGED <<formData, editingItem>> ELSE resetForm
  /\ UNCHANGED <<vars, view, records, nextRowId, items, viewLoading, searchTerm,
                 categoryFilter, distanceFilter, calls, notices, nCalls>>

\* the inputs of the form: the user replaces its content
setFormData(form) ==
  /\ view \in CrudViews
  /\ ~viewLoading
  /\ isDialogOpen
  /\ form # formData
  /\ formData' = form
  /\ UNCHANGED <<vars, view, records, nextRowId, items, viewLoading, isDialogOpen,
                 editingItem, searchTerm, categoryFilter, distanceFilter, calls,
                 notices, nCalls>>

\* the values the filters are set to
FilterCategories(v) ==
  IF v = "dating-ideas" THEN {"all", "Sport"}
  ELSE IF v = "events" THEN {"all", "Sport", "Kultur"}
  ELSE {}

SearchTerms == {<<>>, <<"j", "A">>, <<"a">>, <<"x">>}

DistanceFilters == {"all", "under5", "under20", "over20"}

setCategoryFilter(value) ==
  /\ ~viewLoading
  /\ ~isDialogOpen
  /\ value \in FilterCategories(view)
  /\ value # categoryFilter
  /\ categoryFilter' = value
  /\ UNCHANGED <<vars, view, records, nextRowId, items, viewLoading, isDialogOpen,
                 editingItem, formData, searchTerm, distanceFilter, calls,
                 notices, nCalls>>

setSearchTerm(value) ==
  /\ view = "events"
  /\ ~viewLoading
  /\ value # searchTerm
  /\ searchTerm' = value
  /\ UNCHANGED <<vars, view, records, nextRowId, items, viewLoading, isDialogOpen,
                 editingItem, formData, categoryFilter, distanceFilter, calls,
                 notices, nCalls>>

setDistanceFilter(value) ==
  /\ view = "events"
  /\ ~viewLoading
  /\ value # distanceFilter
  /\ distanceFilter' = value
  /\ UNCHANGED <<vars, view, records, nextRowId, items, viewLoading, isDialogOpen,
                 editingItem, formData, searchTerm, categoryFilter, calls,
                 notices, nCalls>>

\* ---- what the views render --------------------------------------------------
ToLowerCase(s) ==
  [x \in DOMAIN s |->
     IF s[x] = "A" THEN "a" ELSE IF s[x] = "B" THEN "b" ELSE IF s[x] = "J" THEN "j"
     ELSE IF s[x] = "K" THEN "k" ELSE IF s[x] = "M" THEN "m" ELSE IF s[x] = "O" THEN "o"
     ELSE IF s[x] = "P" THEN "p" ELSE IF s[x] = "R" THEN "r" ELSE IF s[x] = "S" THEN "s"
     ELSE IF s[x] = "U" THEN "u" ELSE IF s[x] = "Y" THEN "y" ELSE s[x]]

\* String.prototype.includes
Includes(s, t) ==
  \E x \in 0..(Len(s) - Len(t)) : SubSeq(s, x + 1, x + Len(t)) = t

matchesSearch(event) ==
  \/ Includes(ToLowerCase(event.title), ToLowerCase(searchTerm))
  \/ Includes(ToLowerCase(event.description), ToLowerCase(searchTerm))
  \/ Includes(ToLowerCase(event.location), ToLowerCase(searchTerm))

matchesCategory(event) == categoryFilter = "all" \/ event.category = categoryFilter

\* event.distance_km && ...: null and 0 are falsy
Truthy(distance_km) == \E d \in distance_km : d # 0

matchesDistance(event) ==
  \/ distanceFilter = "all"
  \/ distanceFilter = "under5" /\ Truthy(event.distance_km)
       /\ \A d \in event.distance_km : d <= 5
  \/ distanceFilter = "under20" /\ Truthy(event.distance_km)
       /\ \A d \in event.distance_km : d <= 20
  \/ distanceFilter = "over20" /\ Truthy(event.distance_km)
       /\ \A d \in event.distance_km : d > 20

\* a filter that shows an event as soon as one predicate holds
filteredEventsTestAny(event) ==
  matchesSearch(event) \/ matchesCategory(event) \/ matchesDistance(event)

filteredEventsTest(event) ==
  matchesSearch(event) /\ matchesCategory(event) /\ matchesDistance(event)

\* filteredEvents of Events
filteredEvents == SelectSeq(items, filteredEventsTest)

filteredIdeasTest(idea) == idea.category = categoryFilter

\* filteredIdeas of DatingIdeasApp
filteredIdeas ==
  IF categoryFilter = "all" THEN items ELSE SelectSeq(items, filteredIdeasTest)

ViewNext ==
  \/ \E c \in BagToSet(calls) : ServeFetch(c)
  \/ \E c \in BagToSet(calls) : \E r \in c.resps : fetchItems(c, r)
  \/ handleSubmit
  \/ \E c \in BagToSet(calls) : SubmitReturn(c)
  \/ \E x \in DOMAIN items : toggleComplete(x)
  \/ \E c \in BagToSet(calls) : ToggleReturn(c)
  \/ \E x \in DOMAIN items : deleteItem(x)
  \/ \E c \in BagToSet(calls) : DeleteItemReturn(c)
  \/ \E x \in DOMAIN items : startEdit(x)
  \/ \E open \in BOOLEAN : onOpenChange(open)
  \/ \E form \in FilledForms(view) : setFormData(form)
  \/ \E value \in FilterCategories(view) : setCategoryFilter(value)
  \/ \E value \in SearchTerms : setSearchTerm(value)
  \/ \E value \in DistanceFilters : setDistanceFilter(value)

ViewSpec == ViewInit /\ [][ViewNext]_<<vars, viewVars>>

\* ---- properties of the views ---------------------------------------------
\* the remote calls in flight
Requests == UNION {c.req : c \in BagToSet(calls)}

\* C15: every insert and every update in flight on a table of per-user
\* records carries the user's id in its payload, the updates made by the
\* completion and favourite toggles included.
C15_PayloadCarriesUser ==
  \A q \in Requests :
    q.op \in {"insert", "update"} =>
      \A p \in q.payload : "user_id" \in DOMAIN p /\ p["user_id"] = UserId

\* C16: every call in flight passes the user's id, as a filter on user_id or
\* in the payload; none addresses its rows by id alone.
C16_EveryCallPassesUser ==
  \A q \in Requests :
    \/ \E f \in q.filter : (f.kind = "or" \/ f.col = "user_id") /\ f.val = UserId
    \/ \E p \in q.payload : "user_id" \in DOMAIN p /\ p["user_id"] = UserId

\* the rows of the user, as a select returns them
OwnRows(rows) == {r \in rows : r.user_id = UserId}

\* C17: a delete that succeeds removes the row it addresses from the table
\* and changes no other row; the fetch it triggers returns, and then puts on
\* screen, the user's rows as the table holds them, the deleted one not
\* among them.
C17_DeleteRemovesOnlyTarget ==
  [][ /\ \A c \in BagToSet(calls) :
           (DeleteItemReturn(c) /\ nCalls' = nCalls) =>
             /\ records' = {r \in records : r.id \notin c.target}
             /\ \E d \in BagToSet(calls') :
                  d.fn = "fetchItems" /\ d.origin = "deleteItem"
                  /\ d.target = c.target /\ d.req # {}
      /\ \A d \in BagToSet(calls') \ BagToSet(calls) :
           (d.origin = "deleteItem" /\ d.fn = "fetchItems") =>
             \A r \in d.resps :
               r.status = "ok" =>
                 /\ Range(r.data) = OwnRows(records)
                 /\ Len(r.data) = Cardinality(OwnRows(records))
                 /\ \A x \in DOMAIN r.data : r.data[x].id \notin d.target
      /\ \A c \in BagToSet(calls) : \A r \in c.resps :
           (fetchItems(c, r) /\ r.status = "ok") => items' = r.data ]_viewVars

\* the bucket list after its first row was deleted: the second row is on
\* screen and the other user's row is still in the table
C17_Witness ==
  /\ view = "bucket-list" /\ calls = EmptyBag /\ nCalls = 1
  /\ notices["ok"] = 1
  /\ Len(items) = 1 /\ items[1].id = 2 /\ items[1] \in SeedRows(view)
  /\ records = {r \in SeedRows(view) : r.id # 1}

\* C18: the events on screen are the fetched events that pass the search, the
\* category and the distance predicate together, in fetch order; the ideas on
\* screen are the fetched ideas of the selected category; filters at 'all'
\* and an empty search text show the whole fetched list.
C18_FilterConjunctive ==
  /\ view = "events" =>
       /\ Range(filteredEvents) =
            {e \in Range(items) : matchesSearch(e)}
              \cap {e \in Range(items) : matchesCategory(e)}
              \cap {e \in Range(items) : matchesDistance(e)}
       /\ \A x, y \in DOMAIN filteredEvents :
            x < y => \E a, b \in DOMAIN items :
                       a < b /\ items[a] = filteredEvents[x]
                             /\ items[b] = filteredEvents[y]
       /\ (searchTerm = <<>> /\ categoryFilter = "all" /\ distanceFilter = "all")
            => filteredEvents = items
  /\ view = "dating-ideas" =>
       /\ categoryFilter = "all" => filteredIdeas = items
       /\ categoryFilter # "all" =>
            /\ Range(filteredIdeas) =
                 {i \in Range(items) : i.category = categoryFilter}
            /\ Len(filteredIdeas) = Cardinality(Range(filteredIdeas))

\* a search text, a category and a distance bucket are set and two of the
\* five fetched events pass all three
C18_Witness ==
  /\ view = "events" /\ Len(items) = 5
  /\ searchTerm = <<"a">> /\ categoryFilter = "Sport"
  /\ distanceFilter = "under20"
  /\ Len(filteredEvents) = 2

\* C19 as stated: a fetch that fails leaves the view with an empty list.
C19_FailedFetchEmpties ==
  [][ \A c \in BagToSet(calls) : \A r \in c.resps :
        (fetchItems(c, r) /\ Failed(r.status)) => items' = <<>> ]_viewVars

\* C19 amended: a fetch that fails leaves the list on screen as it was (empty
\* when it is the first fetch) and ends the loading state; a returned error
\* is notified, an exception is not.
C19_FailedFetchKeepsList ==
  [][ \A c \in BagToSet(calls) : \A r \in c.resps :
        (fetchItems(c, r) /\ Failed(r.status)) =>
          /\ items' = items
          /\ viewLoading => items' = <<>>
          /\ ~viewLoading'
          /\ notices'["error"] = notices["error"] + (IF r.status = "error" THEN 1 ELSE 0)
          /\ notices'["ok"] = notices["ok"] ]_viewVars

\* after a mutation that succeeded its refetch returned an error: the list on
\* screen still shows a row as it was before the mutation
C19_Witness ==
  /\ view \in CrudViews /\ calls = EmptyBag
  /\ notices["ok"] = 1 /\ notices["error"] = 1
  /\ \E x \in DOMAIN items : items[x] \notin records

\* the number of calls in progress that are in their fetch
Fetching(b) == BagCardinality([c \in {d \in BagToSet(b) : d.fn = "fetchItems"} |-> b[c]])

\* C20: a form submit, toggle or delete whose call succeeded goes on, in the
\* step in which its response arrives, to fetch the list; one whose call
\* failed issues no fetch; and no handler issues a fetch when it starts.
C20_RefetchAfterSuccess ==
  [][ /\ \A c \in BagToSet(calls) :
           (SubmitReturn(c) \/ ToggleReturn(c) \/ DeleteItemReturn(c)) =>
             IF nCalls' = nCalls
             THEN /\ Fetching(calls') = Fetching(calls) + 1
                  /\ BagCardinality(calls') = BagCardinality(calls)
                  /\ \E d \in BagToSet(calls') :
                       d.fn = "fetchItems" /\ d.origin = c.origin
                       /\ d.req = {SelectRequest(view)}
             ELSE /\ Fetching(calls') = Fetching(calls)
                  /\ BagCardinality(calls') = BagCardinality(calls) - 1
      /\ (handleSubmit \/ (\E x \in DOMAIN items : toggleComplete(x) \/ deleteItem(x)))
           => /\ Fetching(calls') = Fetching(calls)
              /\ BagCardinality(calls') = BagCardinality(calls) + 1 ]_viewVars

\* the refetch of a toggle that succeeded is in flight
C20_Witness ==
  /\ notices["ok"] = 1 /\ nCalls = 1
  /\ \E c \in BagToSet(calls) :
       c.fn = "fetchItems" /\ c.origin = "toggleComplete" /\ c.req # {}

\* C21: a submit issues exactly one call: while a record is being edited an
\* update addressed to that record's id, otherwise an insert; the written
\* payload carries every field of the form (an empty target_date as null).
CarriesForm(payload, form) ==
  \A f \in DOMAIN form :
    /\ f \in DOMAIN payload
    /\ payload[f] = IF f = "target_date" THEN OrNull(form[f]) ELSE form[f]

C21_SubmitUpdatesOrInserts ==
  [][handleSubmit =>
       \E d \in BagToSet(calls') :
         /\ calls' = With(d)
         /\ d.fn = "handleSubmit"
         /\ \E q \in d.req :
              /\ d.req = {q}
              /\ \A p \in q.payload : CarriesForm(p, formData)
              /\ Cardinality(q.payload) = 1
              /\ IF editingItem # {}
                 THEN /\ q.op = "update"
                      /\ q.filter = {EqFilter("id", e.id) : e \in editingItem}
                 ELSE q.op = "insert" /\ q.filter = {}]_<<vars, viewVars>>

\* the update of an edited record is in flight
C21_Witness ==
  \E c \in BagToSet(calls) :
    /\ c.fn = "handleSubmit"
    /\ editingItem # {}
    /\ \E q \in c.req :
         q.op = "update" /\ q.filter = {EqFilter("id", e.id) : e \in editingItem}

\* C22: in a CRUD view, once no call is in flight and no call has failed (every
\* started mutation was notified as successful), the local list is the
\* user's rows of the table in the order of the select.
C22_ListEqualsRemote ==
  (view \in CrudViews /\ calls = EmptyBag /\ nCalls = notices["ok"])
    => items \in Select(view, records, EqFilter("user_id", UserId))

\* C26: when two toggles of the same record have both succeeded and no other
\* mutation has, the record's flag in the table has the value it had before
\* the first toggle.  (Both refetches are still in flight: the second toggle
\* was triggered before the list was refreshed.)
ToggledTwice(id) ==
  /\ notices["ok"] = 2
  /\ BagCardinality([c \in {d \in BagToSet(calls) :
                              /\ d.origin = "toggleComplete"
                              /\ d.fn = "fetchItems"
                              /\ d.target = {id}} |-> calls[c]]) = 2

C26_TwoTogglesRestore ==
  \A r \in records : \A f \in Range(FlagOf(view)) :
    ToggledTwice(r.id) =>
      \A seed \in SeedRows(view) : seed.id = r.id => r[f] = seed[f]

\* C27: with the distance filter at 'under5' the fetched events that pass the
\* distance predicate are exactly those with a known distance of at most 5
\* (0 included), at 'under20' those with a known distance of at most 20, at
\* 'over20' those with a known distance above 20.
C27_DistanceBuckets ==
  view = "events" =>
    \A x \in DOMAIN items :
      /\ distanceFilter = "under5" =>
            (matchesDistance(items[x]) <=> \E d \in items[x].distance_km : d <= 5)
      /\ distanceFilter = "under20" =>
            (matchesDistance(items[x]) <=> \E d \in items[x].distance_km : d <= 20)
      /\ distanceFilter = "over20" =>
            (matchesDistance(items[x]) <=> \E d \in items[x].distance_km : d > 20)

\* C28: a submit that fails changes nothing but the error notification: the
\* dialog, the form, the edit target, the list and the table stay as they
\* are and no fetch is issued; a submit that succeeds clears the form and the
\* edit target and closes the dialog.
C28_FailedSubmitKeepsState ==
  [][\A c \in BagToSet(calls) :
       SubmitReturn(c) =>
         IF notices'["error"] > notices["error"]
         THEN /\ notices' = Notice("error")
              /\ calls' = Without(c)
              /\ UNCHANGED <<isDialogOpen, formData, editingItem, items, records,
                             viewLoading>>
         ELSE /\ formData' = EmptyForm(view)
              /\ editingItem' = {}
              /\ ~isDialogOpen']_<<vars, viewVars>>

\* a submit of an edit has failed: the dialog is still open on the record with
\* the form filled, nothing is in flight
C28_Witness ==
  /\ notices["error"] = 1
  /\ notices["ok"] = 0
  /\ calls = EmptyBag
  /\ isDialogOpen
  /\ editingItem # {}
  /\ formData # EmptyForm(view)
  /\ nCalls = 2

\* C29: in a CRUD view a closed dialog goes with no edit target and an empty
\* form, whatever the order of start-edit, open, close, submit and submit
\* completion; the 'new' button opens the dialog with no edit target.
C29_ClosedDialogIsReset ==
  [][/\ (view \in CrudViews /\ ~isDialogOpen')
          => (editingItem' = {} /\ formData' = EmptyForm(view))
     /\ onOpenChange(TRUE) => (editingItem' = {} /\ formData' = EmptyForm(view))
    ]_<<vars, viewVars>>

\* the submit of an edit has succeeded: the dialog is closed with no edit
\* target, the refetch of the edit is in flight
C29_Witness ==
  /\ ~isDialogOpen
  /\ editingItem = {}
  /\ notices["ok"] = 1
  /\ \E c \in BagToSet(calls) :
       c.origin = "handleSubmit" /\ c.fn = "fetchItems" /\ c.target # {}

\* C30: the update of an edit leaves the record's id, created_at and flag
\* (is_completed, is_favorite) as they are in the table, and an edit
\* submitted with the form as startEdit filled it leaves every field of the
\* record as it is.
Hidden(v) == {"id", "created_at"} \cup Range(FlagOf(v))

C30_EditKeepsRecord ==
  [][\A c \in BagToSet(calls) :
       (SubmitReturn(c) /\ c.target # {} /\ notices'["ok"] > notices["ok"]) =>
         \A r \in records : r.id \in c.target =>
           \E t \in records' :
             /\ \A f \in Hidden(view) : t[f] = r[f]
             /\ (\A q \in c.req : \A p \in q.payload :
                    p = ItemData(view, FormOf(view, r))) => t = r
    ]_<<vars, viewVars>>

\* C24: while the default-layout insert of the mounted dashboard is in flight
\* the view is still loading: loading false with an empty layout means that
\* no default-layout creation of this instance is still running.
C24_LoadingUntilDefaultCreated ==
  (~loading /\ layout = <<>>) =>
    ~\E p \in DOMAIN procs : procs[p].kind = "create" /\ Mounted(p)

\* C25: the 'layout was reset' notification is shown only when the default
\* insert of the reset succeeded, the user's rows in the table are the
\* inserted default rows, and local layout is made of them.
C25_SuccessOnlyWhenReset ==
  [][\A p \in DOMAIN procs : \A r \in procs[p].resps :
       (createDefaultLayout(p, r) /\ toasts'["resetOk"] > toasts["resetOk"]) =>
         /\ r.status = "ok"
         /\ RowsOfUser(remote', UserId) = Range(r.data)
         /\ Mounted(p) => layout' = r.data
    ]_<<vars, viewVars>>

\* C23: after a drag-end event with source index s and destination index d
\* the cards on screen are the cards shown before with the dragged card (the
\* one rendered at index s) moved to index d.
C23_DraggedWidgetMoves ==
  [][\A s, d \in 0..(Len(Rendered(layout)) - 1) :
       handleDragEnd(s, {d}) =>
         Ids(Rendered(layout')) = Ids(Reorder(Rendered(layout), s, d))
    ]_<<vars, viewVars>>
====
